---------------------------- MODULE Spec2Model ----------------------------
(* fertilityandlife.py: load_data cleans a CSV of country-year rows with    *)
(* pandas; main builds a bokeh data source, a plot and a year slider whose  *)
(* change callback (update_plot) replaces the displayed rows and the title. *)
EXTENDS Integers, Sequences, FiniteSets, TLC

VARIABLES file, pc, error, data, source, title, slider

vars == <<file, pc, error, data, source, title, slider>>

(***************************************************************************)
(* Bounds of the model and constants of the program.                       *)
(***************************************************************************)
MaxRows == 3

InitialYear == 1964
SliderStart == 1964
SliderEnd == 2013
PaletteMin == 3
PaletteMax == 20

(***************************************************************************)
(* Cells of a DataFrame: a missing value, a number, or a string.           *)
(***************************************************************************)
NaN == [nan |-> TRUE]
Num(n) == [num |-> n]
Str(s) == [str |-> s]

Columns == {"Country", "Region", "Year", "Fertility", "lifeExp", "pop", "ID"}

\* The texts pandas.read_csv reads as a missing value by default.
NaValues == {"", "NA", "NaN", "N/A", "null", "nan"}

\* The value of the numeric texts that occur in the input files.
NumOf == ("5" :> 5) @@ ("60" :> 60) @@ ("100" :> 100) @@ ("200" :> 200)

(***************************************************************************)
(* The input files: a CSV file is the sequence of its rows, each cell as   *)
(* it is written in the file.  A row differs from DefaultRow in at most    *)
(* one column, or in Country and pop only.                                  *)
(***************************************************************************)
DefaultRow ==
  [Country |-> "A", Region |-> "R1", Year |-> InitialYear, Fertility |-> "5",
   lifeExp |-> "60", pop |-> "100", ID |-> "AF"]

AllRawRows ==
  [Country : {"A", "B"}, Region : {"R1", "R2", "R3"},
   Year : {InitialYear, InitialYear + 1},
   Fertility : {"", "5", "abc"}, lifeExp : {"", "60", "x"},
   pop : {"", "100", "200"}, ID : {"", "AF"}]

Deviations(r) == {c \in Columns : r[c] # DefaultRow[c]}

RawRows ==
  {r \in AllRawRows :
     \/ Cardinality(Deviations(r)) <= 1
     \/ Deviations(r) \subseteq {"Country", "pop"}}

RowSeqs == UNION {[1..n -> RawRows] : n \in 0..MaxRows}

Files ==
  [status : {"ok"}, rows : RowSeqs]
    \cup [status : {"missing", "unreadable"}, rows : {<<>>}]

(***************************************************************************)
(* pandas.read_csv                                                         *)
(***************************************************************************)
\* A column is read as numbers when every cell that is not missing is one.
NumericCol(rows, c) ==
  \A i \in 1..Len(rows) : rows[i][c] \in NaValues \/ rows[i][c] \in DOMAIN NumOf

ParseNumCell(rows, c, s) ==
  IF s \in NaValues THEN NaN
  ELSE IF NumericCol(rows, c) THEN Num(NumOf[s])
  ELSE Str(s)

ParseStrCell(s) == IF s \in NaValues THEN NaN ELSE Str(s)

\* The frame read from the rows, with the RangeIndex 0, 1, ... as "index".
ReadCsv(rows) ==
  [i \in 1..Len(rows) |->
     [index |-> i - 1,
      Country |-> rows[i].Country,
      Region |-> rows[i].Region,
      Year |-> rows[i].Year,
      Fertility |-> ParseNumCell(rows, "Fertility", rows[i].Fertility),
      lifeExp |-> ParseNumCell(rows, "lifeExp", rows[i].lifeExp),
      pop |-> ParseNumCell(rows, "pop", rows[i].pop),
      ID |-> ParseStrCell(rows[i].ID)]]

\* The exception read_csv raises for a file of the given status.
ReadError(status) ==
  IF status = "missing" THEN "FileNotFoundError" ELSE "PermissionError"

(***************************************************************************)
(* load_data                                                               *)
(***************************************************************************)
\* DropNa with lifeExp as the only essential column.
DropNa_LifeExpOnly(frame) ==
  SelectSeq(frame, LAMBDA r : r.lifeExp # NaN)

\* data.dropna(subset=['lifeExp', 'Fertility'])
DropNa(frame) ==
  SelectSeq(frame, LAMBDA r : r.lifeExp # NaN /\ r.Fertility # NaN)

RECURSIVE FfillFrom(_, _)
FfillFrom(s, carry) ==
  IF s = <<>> THEN <<>>
  ELSE LET v == IF Head(s) = NaN THEN carry ELSE Head(s)
       IN <<v>> \o FfillFrom(Tail(s), v)

\* Series.ffill and Series.bfill, in the order of the series.
Ffill(s) == FfillFrom(s, NaN)

Reverse(s) == [i \in 1..Len(s) |-> s[Len(s) + 1 - i]]

Bfill(s) == Reverse(Ffill(Reverse(s)))

\* data.groupby('Country')['pop'].ffill(): each group's pop values, in the
\* order of the frame's rows, forward filled, and put back at the rows'
\* positions.
GroupFfill(frame) ==
  [i \in 1..Len(frame) |->
     LET group == {j \in 1..Len(frame) : frame[j].Country = frame[i].Country}
         rank(j) == Cardinality({k \in group : k <= j})
         at(n) == CHOOSE j \in group : rank(j) = n
         series == [n \in 1..Cardinality(group) |-> frame[at(n)].pop]
     IN Ffill(series)[rank(i)]]

\* FillPop without the backward fill.
FillPop_NoBfill(frame) ==
  LET filled == GroupFfill(frame)
  IN [i \in 1..Len(frame) |-> [frame[i] EXCEPT !.pop = filled[i]]]

\* data['pop'] = data.groupby('Country')['pop'].ffill().bfill(): the bfill
\* is applied to the whole series that the grouped ffill returns.
FillPop(frame) ==
  LET filled == Bfill(GroupFfill(frame))
  IN [i \in 1..Len(frame) |-> [frame[i] EXCEPT !.pop = filled[i]]]

\* FillID with the spelling of the comment, 'unknown'.
FillID_Lowercase(frame) ==
  [i \in 1..Len(frame) |->
     [frame[i] EXCEPT !.ID = IF @ = NaN THEN Str("unknown") ELSE @]]

\* data['ID'] = data['ID'].fillna('Unknown')
FillID(frame) ==
  [i \in 1..Len(frame) |->
     [frame[i] EXCEPT !.ID = IF @ = NaN THEN Str("Unknown") ELSE @]]

Clean(rows) == FillID(FillPop(DropNa(ReadCsv(rows))))

NoData == [loaded |-> FALSE, frame |-> <<>>]

\* LoadData with the exception of read_csv caught and an empty frame
\* returned in its place.
LoadData_Swallow ==
  /\ pc = "start"
  /\ data' = [loaded |-> TRUE,
              frame |-> IF file.status = "ok" THEN Clean(file.rows) ELSE <<>>]
  /\ pc' = "loaded"
  /\ UNCHANGED <<file, error, source, title, slider>>

\* load_data('gapminder.csv') in main: the cleaned frame, or the exception
\* of read_csv, which nothing catches.
LoadData ==
  /\ pc = "start"
  /\ IF file.status = "ok"
       THEN /\ data' = [loaded |-> TRUE, frame |-> Clean(file.rows)]
            /\ pc' = "loaded"
            /\ error' = error
       ELSE /\ error' = ReadError(file.status)
            /\ pc' = "crashed"
            /\ data' = data
  /\ UNCHANGED <<file, source, title, slider>>

(***************************************************************************)
(* main, make_plot, setup_slider                                           *)
(***************************************************************************)
\* data[data['Year'] == yr]
SelectYear(frame, yr) == SelectSeq(frame, LAMBDA r : r.Year = yr)

\* DataFrame.to_dict(orient='list'): the columns, without the index.
ToDictList(frame) ==
  [c \in Columns |-> [k \in 1..Len(frame) |-> frame[k][c]]]

\* ColumnDataSource(data=frame): the columns and the index.
FromFrame(frame) ==
  [c \in Columns \cup {"index"} |-> [k \in 1..Len(frame) |-> frame[k][c]]]

Digit == <<"0", "1", "2", "3", "4", "5", "6", "7", "8", "9">>

RECURSIVE IntToStr(_)
IntToStr(n) ==
  IF n < 10 THEN Digit[n + 1] ELSE IntToStr(n \div 10) \o Digit[(n % 10) + 1]

\* f"Life Expectancy vs Fertility in {yr}"
TitleText(yr) == "Life Expectancy vs Fertility in " \o IntToStr(yr)

\* source = ColumnDataSource(data=data[data['Year'] == initial_year])
MakeSource ==
  /\ pc = "loaded"
  /\ source' = FromFrame(SelectYear(data.frame, InitialYear))
  /\ pc' = "sourced"
  /\ UNCHANGED <<file, error, data, title, slider>>

Range(s) == {s[i] : i \in 1..Len(s)}

\* make_plot: Category20[len(regions)] is looked up for at most 20 regions.
\* bokeh defines the palette for the sizes 3 to 20; for fewer regions the
\* lookup raises KeyError in the bokeh releases that define no smaller
\* palette, so both outcomes are allowed there.
MakePlot ==
  /\ pc = "sourced"
  /\ LET regions == Range(source["Region"])
         n == Cardinality(regions)
     IN \/ /\ n >= PaletteMin \/ n > PaletteMax
           /\ title' = TitleText(InitialYear)
           /\ pc' = "plotted"
           /\ error' = error
        \/ /\ n < PaletteMin
           /\ \/ /\ title' = TitleText(InitialYear)
                 /\ pc' = "plotted"
                 /\ error' = error
              \/ /\ error' = "KeyError"
                 /\ pc' = "crashed"
                 /\ title' = title
  /\ UNCHANGED <<file, data, source, slider>>

\* setup_slider: the slider starts at initial_year; update_plot is
\* registered for its changes.
SetupSlider ==
  /\ pc = "plotted"
  /\ slider' = InitialYear
  /\ pc' = "running"
  /\ UNCHANGED <<file, error, data, source, title>>

\* The years a user moves the slider to.
SliderYears == {SliderStart, SliderStart + 1, SliderEnd}

\* UpdatePlot selecting by the value the slider had before the change.
UpdatePlot_Stale(yr) ==
  /\ source' = ToDictList(SelectYear(data.frame, slider))
  /\ title' = TitleText(yr)
  /\ data' = data

\* UpdatePlot that narrows the Dataset itself to the selected year.
UpdatePlot_Narrowing(yr) ==
  /\ source' = ToDictList(SelectYear(data.frame, yr))
  /\ title' = TitleText(yr)
  /\ data' = [data EXCEPT !.frame = SelectYear(data.frame, yr)]

\* UpdatePlot that leaves the title as it is.
UpdatePlot_NoTitle(yr) ==
  /\ source' = ToDictList(SelectYear(data.frame, yr))
  /\ title' = title
  /\ data' = data

\* update_plot, run by the slider when its value has changed to yr.
UpdatePlot(yr) ==
  /\ source' = ToDictList(SelectYear(data.frame, yr))
  /\ title' = TitleText(yr)
  /\ data' = data

\* A change of the slider's value and the callback it triggers.
SliderChange(yr) ==
  /\ pc = "running"
  /\ yr \in SliderStart..SliderEnd
  /\ yr # slider
  /\ slider' = yr
  /\ UpdatePlot(yr)
  /\ UNCHANGED <<file, pc, error>>

Init ==
  /\ file \in Files
  /\ pc = "start"
  /\ error = "none"
  /\ data = NoData
  /\ source = <<>>
  /\ title = ""
  /\ slider = 0

Next ==
  \/ LoadData
  \/ MakeSource
  \/ MakePlot
  \/ SetupSlider
  \/ \E yr \in SliderYears : SliderChange(yr)

Spec == Init /\ [][Next]_vars

(***************************************************************************)
(* Properties of load_data.                                                *)
(***************************************************************************)
\* A cell of the file holds a value when its text is not read as missing.
Present(s) == s \notin NaValues

\* A cell that holds a text which is not a number.
Malformed(s) == Present(s) /\ s \notin DOMAIN NumOf

\* The row of the file that a row of the frame was read from.
Orig(r) == file.rows[r.index + 1]

Indexes(frame) == {frame[i].index : i \in 1..Len(frame)}

\* C1: the Dataset returned by load_data holds exactly the input rows whose
\* Fertility and lifeExp are both present, in their original relative order:
\* no output row has a missing Fertility or lifeExp, and no row with both
\* present is dropped.
C1_KeepsExactlyCompleteRows ==
  data.loaded =>
    LET f == data.frame
        kept == {j \in 1..Len(file.rows) :
                   Present(file.rows[j].Fertility) /\ Present(file.rows[j].lifeExp)}
    IN /\ {x + 1 : x \in Indexes(f)} = kept
       /\ Len(f) = Cardinality(kept)
       /\ \A i, k \in 1..Len(f) : i < k => f[i].index < f[k].index
       /\ \A i \in 1..Len(f) :
            /\ f[i].Fertility # NaN
            /\ f[i].lifeExp # NaN
            /\ f[i].Country = Orig(f[i]).Country
            /\ f[i].Region = Orig(f[i]).Region
            /\ f[i].Year = Orig(f[i]).Year

\* Some rows were dropped and some were kept, a kept row after a dropped one.
C1_Witness ==
  /\ data.loaded
  /\ Len(data.frame) > 0
  /\ Len(data.frame) < Len(file.rows)
  /\ data.frame[1].index > 0

\* The pop values of the same Country that the claim C2 allows for row i of
\* the frame: of the rows with a pop in the file, the last at an earlier Year
\* (of rows of the same Year, those before row i count as earlier), or, when
\* there is none, the earliest at a later Year.
AllowedPop(f, i) ==
  LET known == {j \in 1..Len(f) :
                  f[j].Country = f[i].Country /\ Present(Orig(f[j]).pop)}
      earlier == {j \in known :
                    f[j].Year < f[i].Year \/ (f[j].Year = f[i].Year /\ j < i)}
      later == known \ earlier
  IN IF earlier # {}
       THEN {f[j].pop : j \in {e \in earlier : \A o \in earlier : f[o].Year <= f[e].Year}}
       ELSE {f[j].pop : j \in {l \in later : \A o \in later : f[l].Year <= f[o].Year}}

\* C2: a missing pop is replaced only by a pop of the same Country: the last
\* non-missing pop of that Country at an earlier Year, or, if none exists,
\* the earliest non-missing pop of that Country at a later Year.
C2_FilledFromSameCountry ==
  data.loaded =>
    \A i \in 1..Len(data.frame) :
      (~Present(Orig(data.frame[i]).pop) /\ data.frame[i].pop # NaN)
        => data.frame[i].pop \in AllowedPop(data.frame, i)

\* C3: a Country none of whose retained rows has a known pop keeps pop
\* missing on all of its rows, whatever the rows of other Countries carry.
C3_UnknownPopStaysMissing ==
  data.loaded =>
    \A i \in 1..Len(data.frame) :
      (\A j \in 1..Len(data.frame) :
         data.frame[j].Country = data.frame[i].Country
           => ~Present(Orig(data.frame[j]).pop))
        => data.frame[i].pop = NaN

\* C4: every Country that has at least one retained row with a known pop
\* has a non-missing pop on every one of its rows.
C4_KnownPopFillsCountry ==
  data.loaded =>
    \A i \in 1..Len(data.frame) :
      (\E j \in 1..Len(data.frame) :
         /\ data.frame[j].Country = data.frame[i].Country
         /\ Present(Orig(data.frame[j]).pop))
        => data.frame[i].pop # NaN

\* A row without a pop precedes the only row of its Country that has one.
C4_Witness ==
  /\ data.loaded
  /\ \E i, j \in 1..Len(data.frame) :
       /\ i < j
       /\ data.frame[i].Country = data.frame[j].Country
       /\ ~Present(Orig(data.frame[i]).pop)
       /\ Present(Orig(data.frame[j]).pop)
       /\ data.frame[i].pop = data.frame[j].pop
       /\ \A k \in 1..Len(data.frame) :
            (k < i /\ data.frame[k].Country = data.frame[i].Country)
              => ~Present(Orig(data.frame[k]).pop)

C8_MalformedRowsDropped ==
  data.loaded =>
    /\ error = "none"
    /\ \A j \in 1..Len(file.rows) :
         (Malformed(file.rows[j].Fertility) \/ Malformed(file.rows[j].lifeExp))
           => (j - 1) \notin Indexes(data.frame)

(***************************************************************************)
(* Properties of the program: the failure of load_data, the display.       *)
(***************************************************************************)
\* The kind of error by which load_data reports a source that does not
\* exist or cannot be read: the exceptions read_csv raises for it.
DataLoadError == {"FileNotFoundError", "PermissionError"}

ShowsYear(src, f, y) ==
  LET idx == {i \in 1..Len(f) : f[i].Year = y}
  IN \A c \in Columns :
       /\ c \in DOMAIN src
       /\ Len(src[c]) = Cardinality(idx)
       /\ \A i \in idx : src[c][Cardinality({j \in idx : j <= i})] = f[i][c]

\* C6: update_plot produces as ActiveView exactly the Records of the Dataset
\* whose Year equals the requested year, in Dataset order; when no Record
\* has that year the ActiveView is empty and no error is raised.
C6_UpdateSelectsYear ==
  [][(pc = "running" /\ slider' # slider) =>
       /\ ShowsYear(source', data.frame, slider')
       /\ DOMAIN source' = Columns
       /\ pc' = "running"
       /\ error' = "none"]_vars

\* The slider was moved to a year of which the Dataset has some rows, but
\* not all of its rows.
C6_Witness ==
  /\ pc = "running"
  /\ slider = InitialYear + 1
  /\ Len(source["Year"]) > 0
  /\ Len(source["Year"]) < Len(data.frame)

\* C9: after load_data has returned, the Dataset is never changed: no year
\* change handled by update_plot, nor any other step, alters a row or a
\* field of it.
C9_DatasetImmutable ==
  [][data.loaded => data' = data]_vars

\* The slider was moved while the Dataset holds rows of several years.
C9_Witness ==
  /\ pc = "running"
  /\ slider # InitialYear
  /\ \E i, j \in 1..Len(data.frame) : data.frame[i].Year # data.frame[j].Year

\* The text of the years the slider is moved to.
YearText == (1964 :> "1964") @@ (1965 :> "1965") @@ (2013 :> "2013")

\* C10: in the initial state (year 1964) and after any sequence of slider
\* changes the display agrees with the slider's value y: the title is
\* "Life Expectancy vs Fertility in y" and the displayed rows are exactly
\* the Dataset's rows of year y, also when y has no rows.
C10_DisplayMatchesSlider ==
  pc = "running" =>
    /\ slider \in DOMAIN YearText
    /\ title = "Life Expectancy vs Fertility in " \o YearText[slider]
    /\ ShowsYear(source, data.frame, slider)

\* The slider is at a year of which the Dataset, which is not empty, has no
\* row.
C10_Witness ==
  /\ pc = "running"
  /\ slider = SliderEnd
  /\ Len(data.frame) > 0
  /\ Len(source["Year"]) = 0
  /\ title = "Life Expectancy vs Fertility in 2013"


=============================================================================
